---------------------------- MODULE Spec2Model ----------------------------
(***************************************************************************)
(* A model of rustmade's platform layer (src/main.rs): the off-screen      *)
(* buffer and its (re)allocation, the window procedure, the controller     *)
(* poll and the main loop.                                                 *)
(*                                                                         *)
(* Seven specifications share the variables:                               *)
(*   Spec         the program, main() from its first line to its return;   *)
(*   SpecLive     the same, with the loop's steps scheduled fairly;        *)
(*   SpecFrames   the loop of main after the many iterations that bring    *)
(*                x_anim and y_anim to the end of the i32 range;           *)
(*   SpecPump     one pump of the message queue, for every short queue,    *)
(*                with GLOBAL_BUFFER null or set;                          *)
(*   SpecRender   render_gradient on a small buffer, byte by byte, for     *)
(*                offsets of the whole i32 range;                          *)
(*   SpecSurface  win32_resize_dib_section applied to one buffer, any      *)
(*                number of times, for widths and heights of the whole     *)
(*                i32 range;                                               *)
(*   SpecConc     read_controller_state run field by field on one thread   *)
(*                and the reader of main (lines 363-369) on another, both  *)
(*                through the slot's Mutex.                                *)
(***************************************************************************)
EXTENDS Integers, Sequences, FiniteSets, TLC

\* ------------------------------------------------------------------ bounds

\* Messages the window system may hold pending for the thread at once.
MaxQueue == 2

\* Memory blocks VirtualAlloc hands out in one run of SpecSurface.
MaxBlocks == 3

\* Iterations of the main loop followed in one run.
MaxFrames == 2

\* Controllers that answer as connected in one poll of the program.
MaxConnected == 2

\* The widest and the highest buffer SpecRender fills byte by byte.
MaxWidth == 3

MaxHeight == 2

\* ------------------------------------------------------- 32-bit arithmetic

\* i32::MAX; i32::MIN is written -MaxI32 - 1 (2^31 itself is no value here).
MaxI32 == 2147483647

MinI32 == -MaxI32 - 1

\* i16::MAX and i16::MIN, the range of a stick axis.
MaxI16 == 32767

MinI16 == -MaxI16 - 1

\* x + y in i32 as a release build computes it: the sum modulo 2^32.
WrapAdd(x, y) ==
    IF x >= 0 /\ y >= 0 /\ x > MaxI32 - y
        THEN ((x - MaxI32) - 1) + ((y - MaxI32) - 1)
    ELSE IF x < 0 /\ y < 0 /\ x < MinI32 - y
        THEN ((x + MaxI32) + 1) + ((y + MaxI32) + 1)
    ELSE x + y

\* x * y in i32 modulo 2^32, for y >= 0, by doubling (no product is formed
\* outside the i32 range).
RECURSIVE WrapMul(_, _)
WrapMul(x, y) ==
    IF y = 0 THEN 0
    ELSE LET h == WrapMul(x, y \div 2)
             d == WrapAdd(h, h)
         IN  IF y % 2 = 1 THEN WrapAdd(d, x) ELSE d

\* Whether x * y leaves the i32 range, for x >= 0 and y >= 0: what a build
\* with overflow checks panics on.
MulOverflows(x, y) == x > 0 /\ y > 0 /\ x > MaxI32 \div y

\* ---------------------------------------------------------- the surface

\* null_mut(): the address of no block.  Blocks are numbered from 1.
NULL == 0

Blocks == 1..MaxBlocks

\* main's default_width and default_height.
default_width == 1280

default_height == 720

bytes_per_pixel == 4

\* The widths and heights SpecSurface resizes to: small ones, the program's
\* own, and ones whose byte count leaves the i32 range.
Widths == {1, 640, default_width, 65536, 1073741825}

Heights == {1, 480, default_height, 16385}

\* Win32OffscreenBuffer::default(): the zeroed buffer main boxes.
DefaultBuffer ==
    [bitmap_info |-> [biWidth |-> 0, biHeight |-> 0, biBitCount |-> 0],
     width |-> 0, height |-> 0, pitch |-> 0, memory |-> NULL]

\* A block of the process's virtual memory: its length in bytes, whether it
\* is committed now, and how often VirtualFree released it.  frees[NULL]
\* counts the calls of VirtualFree on the null pointer.
FreshHeap ==
    [size  |-> [b \in Blocks |-> 0],
     live  |-> [b \in Blocks |-> FALSE],
     frees |-> [b \in {NULL} \cup Blocks |-> 0]]

\* The block VirtualAlloc returns next: one never handed out before.
NextBlock(h) ==
    IF \E b \in Blocks : h.size[b] = 0
        THEN CHOOSE b \in Blocks : h.size[b] = 0 /\ \A c \in Blocks : h.size[c] = 0 => b <= c
        ELSE NULL

\* VirtualFree(p, 0, MEM_RELEASE).
VirtualFree(h, p) ==
    [h EXCEPT !.frees[p] = @ + 1,
              !.live = [b \in Blocks |-> IF b = p THEN FALSE ELSE h.live[b]]]

\* VirtualAlloc of `size` bytes at block b.
VirtualAlloc(h, b, size) ==
    [h EXCEPT !.size[b] = size, !.live[b] = TRUE]

\* Lines 87-89: the buffer's memory is released only when it holds some.
FreeNoNullCheck(h, buffer) == VirtualFree(h, buffer.memory)

ReleaseOld(h, buffer) ==
    IF buffer.memory # NULL THEN VirtualFree(h, buffer.memory) ELSE h

\* Lines 105-129: every field of the buffer is overwritten together.
StoreKeepsMemory(buffer, width, height, pitch, allocated_memory) ==
    [buffer EXCEPT !.bitmap_info = [biWidth |-> width, biHeight |-> -height, biBitCount |-> 32],
                   !.pitch = pitch, !.width = width, !.height = height]

StoreFields(buffer, width, height, pitch, allocated_memory) ==
    [bitmap_info |-> [biWidth |-> width, biHeight |-> -height, biBitCount |-> 32],
     width |-> width, height |-> height, pitch |-> pitch,
     memory |-> allocated_memory]

\* win32_resize_dib_section(buffer, width, height) on heap h, for positive
\* width and height.  `checks` is whether the build panics on arithmetic
\* overflow (a debug profile) or wraps (a release profile); `granted` is
\* whether the system has the memory to give.  The result is the buffer and
\* the heap the call leaves, and whether it panicked instead of returning.
win32_resize_dib_section(h, buffer, width, height, checks, granted) ==
    LET pixels      == WrapMul(width, height)
        bytes       == WrapMul(pixels, bytes_per_pixel)
        pitch       == WrapMul(width, bytes_per_pixel)
        overflowed  == MulOverflows(width, height) \/ MulOverflows(pixels, bytes_per_pixel)
        \* `as usize` sign-extends: a negative i32 is a length no system grants,
        \* and VirtualAlloc refuses a length of 0.
        framebuffer == IF bytes > 0 /\ granted THEN NextBlock(h) ELSE NULL
        released    == ReleaseOld(h, buffer)
    IN  IF checks /\ overflowed
            THEN [panicked |-> TRUE, buffer |-> buffer, heap |-> h]
        ELSE IF framebuffer = NULL
            THEN [panicked |-> TRUE, buffer |-> buffer, heap |-> released]
        ELSE [panicked |-> FALSE,
              buffer   |-> StoreFields(buffer, width, height, pitch, framebuffer),
              heap     |-> VirtualAlloc(released, framebuffer, bytes)]

\* ------------------------------------------------------------ the gamepad

\* XUSER_MAX_COUNT: the controller indices one poll walks, 0..3.
XUSER_MAX_COUNT == 4

\* The bits of XINPUT_GAMEPAD.wButtons (a u16) the poll tests.
XINPUT_GAMEPAD_DPAD_UP == 1

XINPUT_GAMEPAD_DPAD_DOWN == 2

XINPUT_GAMEPAD_DPAD_LEFT == 4

XINPUT_GAMEPAD_DPAD_RIGHT == 8

XINPUT_GAMEPAD_START == 16

XINPUT_GAMEPAD_BACK == 32

XINPUT_GAMEPAD_LEFT_THUMB == 64

XINPUT_GAMEPAD_RIGHT_THUMB == 128

XINPUT_GAMEPAD_LEFT_SHOULDER == 256

XINPUT_GAMEPAD_RIGHT_SHOULDER == 512

XINPUT_GAMEPAD_A == 4096

XINPUT_GAMEPAD_B == 8192

XINPUT_GAMEPAD_X == 16384

XINPUT_GAMEPAD_Y == 32768

\* a & b on unsigned values.
RECURSIVE BitAnd(_, _)
BitAnd(a, b) ==
    IF a = 0 \/ b = 0 THEN 0
    ELSE (a % 2) * (b % 2) + 2 * BitAnd(a \div 2, b \div 2)

\* GamepadState::default().
DefaultGamepadState ==
    [buttons  |-> [up |-> FALSE, down |-> FALSE, left |-> FALSE, right |-> FALSE,
                   start |-> FALSE, back |-> FALSE, l_thumb |-> FALSE, r_thumb |-> FALSE,
                   l_shoulder |-> FALSE, r_shoulder |-> FALSE,
                   a |-> FALSE, b |-> FALSE, x |-> FALSE, y |-> FALSE],
     triggers |-> [l_trigger |-> 0, r_trigger |-> 0],
     sticks   |-> [l_stick_x |-> 0, l_stick_y |-> 0, r_stick_x |-> 0, r_stick_y |-> 0]]

\* XINPUT_GAMEPAD of XINPUT_STATE::default(): what a failed query leaves.
ZeroGamepad ==
    [wButtons |-> 0, bLeftTrigger |-> 0, bRightTrigger |-> 0,
     sThumbLX |-> 0, sThumbLY |-> 0, sThumbRX |-> 0, sThumbRY |-> 0]

\* (gamepad.wButtons & mask).0 > 0, on the u16 the flags type wraps.  The
\* variant compares the masked bits as a signed 16-bit value.
ButtonSetSigned(gamepad, mask) ==
    LET bits == BitAnd(gamepad.wButtons, mask)
    IN  (IF bits > MaxI16 THEN bits - 65536 ELSE bits) > 0

ButtonSet(gamepad, mask) == BitAnd(gamepad.wButtons, mask) > 0

\* The twenty assignments of lines 254-276, in their order: the field each
\* writes ...
Fields ==
    << <<"buttons", "up">>, <<"buttons", "down">>, <<"buttons", "left">>,
       <<"buttons", "right">>, <<"buttons", "start">>, <<"buttons", "back">>,
       <<"buttons", "l_thumb">>, <<"buttons", "r_thumb">>,
       <<"buttons", "l_shoulder">>, <<"buttons", "r_shoulder">>,
       <<"buttons", "a">>, <<"buttons", "b">>, <<"buttons", "x">>, <<"buttons", "y">>,
       <<"triggers", "l_trigger">>, <<"triggers", "r_trigger">>,
       <<"sticks", "l_stick_x">>, <<"sticks", "l_stick_y">>,
       <<"sticks", "r_stick_x">>, <<"sticks", "r_stick_y">> >>

\* ... and the value the k-th takes from the report.
FieldValue(gamepad, k) ==
    CASE k = 1  -> ButtonSet(gamepad, XINPUT_GAMEPAD_DPAD_UP)
      [] k = 2  -> ButtonSet(gamepad, XINPUT_GAMEPAD_DPAD_DOWN)
      [] k = 3  -> ButtonSet(gamepad, XINPUT_GAMEPAD_DPAD_LEFT)
      [] k = 4  -> ButtonSet(gamepad, XINPUT_GAMEPAD_DPAD_RIGHT)
      [] k = 5  -> ButtonSet(gamepad, XINPUT_GAMEPAD_START)
      [] k = 6  -> ButtonSet(gamepad, XINPUT_GAMEPAD_BACK)
      [] k = 7  -> ButtonSet(gamepad, XINPUT_GAMEPAD_LEFT_THUMB)
      [] k = 8  -> ButtonSet(gamepad, XINPUT_GAMEPAD_RIGHT_THUMB)
      [] k = 9  -> ButtonSet(gamepad, XINPUT_GAMEPAD_LEFT_SHOULDER)
      [] k = 10 -> ButtonSet(gamepad, XINPUT_GAMEPAD_RIGHT_SHOULDER)
      [] k = 11 -> ButtonSet(gamepad, XINPUT_GAMEPAD_A)
      [] k = 12 -> ButtonSet(gamepad, XINPUT_GAMEPAD_B)
      [] k = 13 -> ButtonSet(gamepad, XINPUT_GAMEPAD_X)
      [] k = 14 -> ButtonSet(gamepad, XINPUT_GAMEPAD_Y)
      [] k = 15 -> gamepad.bLeftTrigger
      [] k = 16 -> gamepad.bRightTrigger
      [] k = 17 -> gamepad.sThumbLX
      [] k = 18 -> gamepad.sThumbLY
      [] k = 19 -> gamepad.sThumbRX
      [] k = 20 -> gamepad.sThumbRY

\* The k-th assignment applied to the locked state.
WriteField(gamepad_state, gamepad, k) ==
    [gamepad_state EXCEPT ![Fields[k][1]][Fields[k][2]] = FieldValue(gamepad, k)]

\* The assignment that writes each field: its place in lines 254-276.
AssignedAt ==
    [group \in DOMAIN DefaultGamepadState |->
        [field \in DOMAIN DefaultGamepadState[group] |->
            CHOOSE k \in 1..Len(Fields) : Fields[k] = <<group, field>>]]

\* The state the first n assignments of lines 254-276 leave: a field one of
\* them wrote holds the report's value, any other what it held before.
WriteThrough(gamepad_state, gamepad, n) ==
    [group \in DOMAIN gamepad_state |->
        [field \in DOMAIN gamepad_state[group] |->
            IF AssignedAt[group][field] <= n
                THEN FieldValue(gamepad, AssignedAt[group][field])
                ELSE gamepad_state[group][field]]]

\* Line 288: l_stick_x.abs() of i16::MIN overflows; a build with overflow
\* checks panics there, with the lock held, and any other build goes on.
AbsPanics(gamepad_state, checks) ==
    checks /\ gamepad_state.sticks.l_stick_x = MinI16

\* What XInputGetState answers for one controller index.
NotConnected == [status |-> "ERROR_DEVICE_NOT_CONNECTED", Gamepad |-> ZeroGamepad]

Connected(gamepad) == [status |-> "ERROR_SUCCESS", Gamepad |-> gamepad]

\* Mutex::lock returns only when nobody holds the lock.  The variant takes
\* it whoever holds it.
LockAnyway(m) == TRUE

LockFree(m) == m = "free"

\* The end of the block that declared the guard (lines 291 and 369) drops
\* it, which frees the lock.  The variant leaves the lock with its holder.
KeepGuard(m) == m

DropGuard(m) == "free"

\* Lines 244-293 from controller index i on, as one thread runs them:
\* `answers` is what XInputGetState returns for each index, m who holds the
\* lock, and held whether an earlier index was queried with the lock held.
\* The result is the state the slot is left in, whether the poll panicked
\* (a lock() that cannot return counts as one), who holds the lock then,
\* and whether any index was queried with the lock held.
RECURSIVE PollFrom(_, _, _, _, _, _)
PollFrom(i, gamepad_state, m, held, answers, checks) ==
    IF i >= XUSER_MAX_COUNT
        THEN [state |-> gamepad_state, panicked |-> FALSE, mutex |-> m,
              held_at_query |-> held]
    ELSE LET held_now == held \/ m \in {"writer", "reader"}
         IN  IF answers[i].status # "ERROR_SUCCESS"
                 THEN PollFrom(i + 1, gamepad_state, m, held_now, answers, checks)
             ELSE IF ~LockFree(m)
                 THEN [state |-> gamepad_state, panicked |-> TRUE, mutex |-> m,
                       held_at_query |-> held_now]
             ELSE LET written == WriteThrough(gamepad_state, answers[i].Gamepad,
                                              Len(Fields))
                  IN  IF AbsPanics(written, checks)
                          THEN [state |-> written, panicked |-> TRUE,
                                mutex |-> "poisoned", held_at_query |-> held_now]
                          ELSE PollFrom(i + 1, written, DropGuard("writer"), held_now,
                                        answers, checks)

\* Sample reports: the up bit with the left trigger at 200; the A and Y bits
\* with both extremes of the stick range; every bit of the mask set.
ReportUp ==
    [wButtons |-> XINPUT_GAMEPAD_DPAD_UP, bLeftTrigger |-> 200, bRightTrigger |-> 0,
     sThumbLX |-> 0, sThumbLY |-> 0, sThumbRX |-> 0, sThumbRY |-> 0]

ReportAY ==
    [wButtons |-> XINPUT_GAMEPAD_A + XINPUT_GAMEPAD_Y, bLeftTrigger |-> 0,
     bRightTrigger |-> 255, sThumbLX |-> MinI16, sThumbLY |-> MaxI16,
     sThumbRX |-> -1, sThumbRY |-> 1]

ReportAll ==
    [wButtons |-> 65535, bLeftTrigger |-> 255, bRightTrigger |-> 1,
     sThumbLX |-> MaxI16, sThumbLY |-> MinI16, sThumbRX |-> 12345, sThumbRY |-> -12345]

\* One report per single bit of the mask, the reserved bits 1024 and 2048
\* among them.
BitReport(k) == [ZeroGamepad EXCEPT !.wButtons = 2 ^ k, !.bRightTrigger = k]

\* The reports a controller gives in SpecConc, and in the program's poll.
Reports == {ReportUp, ReportAY, ReportAll} \cup {BitReport(k) : k \in 0..15}

PollReports == {ReportUp, ReportAY}

\* What XInputGetState answers for the four indices in one poll of the
\* program: any indices connected, up to MaxConnected of them.
PollAnswers ==
    {answers \in [0..(XUSER_MAX_COUNT - 1) ->
                     {NotConnected} \cup {Connected(g) : g \in PollReports}] :
        Cardinality({i \in 0..(XUSER_MAX_COUNT - 1) :
                        answers[i].status = "ERROR_SUCCESS"}) <= MaxConnected}

\* The slot controller index i publishes to: line 251 names GLOBAL_GAMEPAD_0
\* for every index.
SlotOf(i) == "GLOBAL_GAMEPAD_0"

\* ------------------------------------------------------------- the state

VARIABLES
    pc,                \* where main (or the caller of the surface) stands
    overflow_checks,   \* the build: TRUE panics on i32 overflow, FALSE wraps
    GLOBAL_RUNNING,    \* static mut GLOBAL_RUNNING
    GLOBAL_BUFFER,     \* static mut GLOBAL_BUFFER: <<>> is null, <<b>> points at b
    heap,              \* the blocks VirtualAlloc handed out
    class_registered,  \* whether RegisterClassW registered the window class
    queue,             \* the messages pending for the window, oldest first
    quit_posted,       \* PostQuitMessage was called and its WM_QUIT not yet retrieved
    GLOBAL_GAMEPAD_0,  \* the GamepadState inside the Mutex of GLOBAL_GAMEPAD_0
    mutex,             \* who holds that Mutex: "free", "writer" or "reader"
    handled,           \* the message wnd_proc returned from in the last step, or "none"
    blit,              \* the StretchDIBits call of the last step, if it made one
    polled,            \* what XInputGetState answered in the last step, if it polled
    presents_after_close,  \* loop presents made with GLOBAL_RUNNING already false
    wpc,               \* SpecConc: where the polling thread stands
    controller_index,  \* SpecConc: the poll's loop variable
    gamepad,           \* SpecConc: the poll's local copy of the report (line 250)
    next_field,        \* SpecConc: the next of the twenty assignments to run
    rpc,               \* SpecConc: where the reading thread stands
    x_anim,            \* main's x_anim (line 339)
    y_anim,            \* main's y_anim (line 340)
    content,           \* the offsets the block was last filled with: <<>> or <<o>>
    client,            \* the client rectangle the window has or last had: <<>> before any
    steps,             \* the steps of the loop body done in this iteration, in order
    frame,             \* the iterations of the loop begun so far
    close_seen,        \* wnd_proc has run its WM_CLOSE or WM_QUIT arm
    failure,           \* the first failure of the run, or "none"
    block_bytes,       \* SpecRender: the bytes of the buffer's block, by offset
    stores             \* SpecRender: the byte offset of each pixel store, in order

vars ==
    <<pc, overflow_checks, GLOBAL_RUNNING, GLOBAL_BUFFER, heap, class_registered,
      queue, quit_posted, GLOBAL_GAMEPAD_0, mutex, handled, blit, polled,
      presents_after_close, wpc, controller_index, gamepad, next_field, rpc,
      x_anim, y_anim, content, client, steps, frame, close_seen, failure,
      block_bytes, stores>>

\* The variables of the window and its loop, and of the two threads of
\* SpecConc.
windowVars == <<class_registered, queue, quit_posted, handled, blit, presents_after_close>>

threadVars == <<wpc, controller_index, gamepad, next_field, rpc>>

\* The frame offsets with what they were rendered into, the bookkeeping of
\* the loop, and the bytes SpecRender follows.
animVars == <<x_anim, y_anim, content>>

loopVars == <<steps, frame, close_seen, failure>>

renderVars == <<block_bytes, stores>>

\* The message kinds wnd_proc tells apart; WM_SIZE stands for every kind it
\* leaves to DefWindowProcW.
MsgKinds ==
    {"WM_DESTROY", "WM_CLOSE", "WM_QUIT", "WM_KEYDOWN", "WM_LBUTTONDOWN",
     "WM_PAINT", "WM_SIZE"}

\* The client rectangles the window takes: the one the system gives it for
\* CW_USEDEFAULT (lines 326-329), and a minimised window's.
Rect(right, bottom) == [left |-> 0, top |-> 0, right |-> right, bottom |-> bottom]

CreatedRect == Rect(800, 600)

ClientRects == {CreatedRect, Rect(0, 0)}

\* GetClientRect(window, &mut client_rect): <<>> is its error, <<r>> the
\* rectangle it stores.
GetClientRect(window, ok) == IF ok THEN window ELSE <<>>

\* win32_get_window_dimension: the error passed on by `?`, or the width and
\* height of the rectangle.  The variant answers the buffer's default size.
DimensionOfDefault(client_rect) ==
    IF client_rect = <<>> THEN <<>>
    ELSE <<[width |-> default_width, height |-> default_height]>>

win32_get_window_dimension(client_rect) ==
    IF client_rect = <<>> THEN <<>>
    ELSE <<[width  |-> client_rect[1].right - client_rect[1].left,
            height |-> client_rect[1].bottom - client_rect[1].top]>>

\* No StretchDIBits call, and no poll, in the last step.
NoBlit ==
    [from |-> "none", buffer |-> DefaultBuffer, window_width |-> 0, window_height |-> 0,
     shown |-> <<>>]

NoPoll == <<>>

\* win32_display_buffer_in_window: the buffer and the destination size
\* handed to StretchDIBits, which reads what the block holds now.
win32_display_buffer_in_window(from, buffer, window_width, window_height) ==
    [from |-> from, buffer |-> buffer, window_width |-> window_width,
     window_height |-> window_height, shown |-> content]

\* The arms of wnd_proc that write GLOBAL_RUNNING (lines 167-178).
ClosingKinds == {"WM_CLOSE", "WM_QUIT"}

\* A window procedure without the WM_PAINT arm of lines 187-203: paint
\* requests go to DefWindowProcW like the kinds of the `_` arm.
PaintToDefault(msg, client_rect) ==
    [running |-> IF msg \in ClosingKinds THEN FALSE ELSE GLOBAL_RUNNING,
     quit |-> IF msg = "WM_DESTROY" THEN TRUE ELSE quit_posted,
     blit |-> NoBlit, panicked |-> FALSE]

\* wnd_proc(hwnd, msg, ..): what the handler leaves of the running flag and
\* the quit request, the blit it made, and whether it panicked.
\* client_rect is what GetClientRect answers for hwnd.
wnd_proc(msg, client_rect) ==
    LET same == [running |-> GLOBAL_RUNNING, quit |-> quit_posted,
                 blit |-> NoBlit, panicked |-> FALSE]
        dimension == win32_get_window_dimension(client_rect)
    IN  CASE msg = "WM_DESTROY" -> [same EXCEPT !.quit = TRUE]
          [] msg = "WM_CLOSE"   -> [same EXCEPT !.running = FALSE]
          [] msg = "WM_QUIT"    -> [same EXCEPT !.running = FALSE]
          [] msg = "WM_PAINT"   ->
                IF GLOBAL_BUFFER = <<>> THEN same
                ELSE IF dimension = <<>> THEN [same EXCEPT !.panicked = TRUE]
                ELSE [same EXCEPT
                        !.blit = win32_display_buffer_in_window(
                                     "paint", GLOBAL_BUFFER[1],
                                     dimension[1].width, dimension[1].height)]
          [] OTHER -> same

\* render_gradient's sums x + x_offset and y + y_offset (lines 219-220)
\* leave the i32 range at some pixel of the buffer: a build with overflow
\* checks panics there.
RenderPanics(buffer, x_offset, y_offset, checks) ==
    /\ checks
    /\ buffer.width > 0
    /\ buffer.height > 0
    /\ \/ x_offset > MaxI32 - (buffer.width - 1)
       \/ y_offset > MaxI32 - (buffer.height - 1)

\* a += b leaves the i32 range, for b > 0 (lines 359, 360, 366).
AddOverflows(a, b) == a > MaxI32 - b

\* ------------------------------------------------------ Spec: the program

\* Before the loop there are no offsets, no rendered content and no window.
NoFrames ==
    /\ x_anim = 0
    /\ y_anim = 0
    /\ content = <<>>
    /\ client = <<>>
    /\ steps = <<>>
    /\ frame = 0
    /\ close_seen = FALSE
    /\ failure = "none"

\* The bytes of the block are followed in SpecRender only.
NoBytes == block_bytes = <<>> /\ stores = <<>>

\* The statics as the image holds them before main runs.
Init ==
    /\ pc = "init"
    /\ overflow_checks \in BOOLEAN
    /\ GLOBAL_RUNNING = FALSE
    /\ GLOBAL_BUFFER = <<>>
    /\ heap = FreshHeap
    /\ class_registered = FALSE
    /\ queue = <<>>
    /\ quit_posted = FALSE
    /\ GLOBAL_GAMEPAD_0 = DefaultGamepadState
    /\ mutex = "free"
    /\ handled = "none"
    /\ blit = NoBlit
    /\ polled = NoPoll
    /\ presents_after_close = 0
    /\ wpc = "idle"
    /\ controller_index = 0
    /\ gamepad = ZeroGamepad
    /\ next_field = 1
    /\ rpc = "idle"
    /\ NoFrames
    /\ NoBytes

\* What a step that dispatches no message, blits nothing and polls nothing
\* leaves of the three records of the last step.
Quiet == handled' = "none" /\ blit' = NoBlit /\ polled' = NoPoll

\* The first failure of a run is the one recorded.
FirstFailure(what) == IF failure = "none" THEN what ELSE failure

\* Lines 298-305: the gamepad slot is initialised and the default buffer boxed.
MainInit ==
    /\ pc = "init"
    /\ pc' = "resize"
    /\ GLOBAL_BUFFER' = <<DefaultBuffer>>
    /\ Quiet
    /\ UNCHANGED <<overflow_checks, GLOBAL_RUNNING, heap, class_registered, queue,
                   quit_posted, GLOBAL_GAMEPAD_0, mutex, presents_after_close, threadVars,
                   animVars, client, loopVars, renderVars>>

\* Line 306: the one resize of the program, to the default size.
MainResize ==
    /\ pc = "resize"
    /\ \E granted \in BOOLEAN :
          LET r == win32_resize_dib_section(heap, GLOBAL_BUFFER[1], default_width,
                                            default_height, overflow_checks, granted)
          IN  /\ GLOBAL_BUFFER' = <<r.buffer>>
              /\ heap' = r.heap
              /\ pc' = IF r.panicked THEN "panicked" ELSE "register"
              /\ failure' = IF r.panicked THEN FirstFailure("allocation") ELSE failure
    /\ Quiet
    /\ UNCHANGED <<overflow_checks, GLOBAL_RUNNING, class_registered, queue, quit_posted,
                   GLOBAL_GAMEPAD_0, mutex, presents_after_close, threadVars,
                   animVars, client, steps, frame, close_seen, renderVars>>

\* Lines 308-319: GetModuleHandleW, whose error main returns, and
\* RegisterClassW, whose result main drops.
MainRegister ==
    /\ pc = "register"
    /\ \E module_ok \in BOOLEAN, registered \in BOOLEAN :
          /\ pc' = IF module_ok THEN "create" ELSE "returned"
          /\ class_registered' = (module_ok /\ registered)
          /\ failure' = IF ~module_ok THEN FirstFailure("module")
                        ELSE IF ~registered THEN FirstFailure("registration")
                        ELSE failure
    /\ Quiet
    /\ UNCHANGED <<overflow_checks, GLOBAL_RUNNING, GLOBAL_BUFFER, heap, queue, quit_posted,
                   GLOBAL_GAMEPAD_0, mutex, presents_after_close, threadVars,
                   animVars, client, steps, frame, close_seen, renderVars>>

\* Line 336: the loop is entered only with the window CreateWindowExW
\* returned.  The variant enters it whatever was returned.
WindowAssumed(created) == TRUE

WindowOk(created) == created

\* Lines 321-336: CreateWindowExW.  It fails without the class; while it
\* runs the system may call wnd_proc with a message; on Err main falls
\* through to its return.
MainCreateWindow ==
    /\ pc = "create"
    /\ \E created \in BOOLEAN, msg \in MsgKinds \cup {"none"}, rect_ok \in BOOLEAN :
          LET r == wnd_proc(msg, GetClientRect(<<CreatedRect>>, rect_ok))
          IN  /\ created => class_registered
              /\ msg # "none" => class_registered
              /\ GLOBAL_RUNNING' = r.running
              /\ quit_posted' = r.quit
              /\ blit' = r.blit
              /\ handled' = msg
              /\ close_seen' = (close_seen \/ msg \in ClosingKinds)
              /\ client' = IF created \/ msg # "none" THEN <<CreatedRect>> ELSE <<>>
              /\ pc' = IF r.panicked THEN "panicked"
                       ELSE IF WindowOk(created) THEN "enter" ELSE "returned"
              /\ failure' = IF r.panicked THEN FirstFailure("dimension")
                            ELSE IF ~created THEN FirstFailure("creation")
                            ELSE failure
    /\ polled' = NoPoll
    /\ UNCHANGED <<overflow_checks, GLOBAL_BUFFER, heap, class_registered, queue,
                   GLOBAL_GAMEPAD_0, mutex, presents_after_close, threadVars,
                   animVars, steps, frame, renderVars>>

\* Lines 337-343: the flag is raised, the offsets start at 0 and the
\* device context is fetched.
MainEnter ==
    /\ pc = "enter"
    /\ pc' = "loop"
    /\ GLOBAL_RUNNING' = TRUE
    /\ x_anim' = 0
    /\ y_anim' = 0
    /\ presents_after_close' = 0
    /\ Quiet
    /\ UNCHANGED <<overflow_checks, GLOBAL_BUFFER, heap, class_registered, queue,
                   quit_posted, GLOBAL_GAMEPAD_0, mutex, threadVars,
                   content, client, loopVars, renderVars>>

\* The steps of one iteration of the loop, in the order of lines 345-356.
LoopOrder == <<"pump", "poll", "render", "present">>

\* Line 344: the loop's condition.
LoopAlways == TRUE

LoopContinues == GLOBAL_RUNNING

\* At most MaxFrames iterations are followed: past them the loop may still
\* stop, but begins no iteration.
LoopCheck ==
    /\ pc = "loop"
    /\ LoopContinues => frame < MaxFrames
    /\ pc' = IF LoopContinues THEN "pump" ELSE "stopped"
    /\ frame' = IF LoopContinues THEN frame + 1 ELSE frame
    /\ steps' = <<>>
    /\ Quiet
    /\ UNCHANGED <<overflow_checks, GLOBAL_RUNNING, GLOBAL_BUFFER, heap, class_registered,
                   queue, quit_posted, GLOBAL_GAMEPAD_0, mutex, presents_after_close,
                   threadVars, animVars, client, close_seen, failure, renderVars>>

\* Lines 345-347, a pending message: PeekMessageW removes the oldest and
\* DispatchMessageW runs wnd_proc on it.
PumpDispatch ==
    /\ pc = "pump"
    /\ queue # <<>>
    /\ \E rect_ok \in BOOLEAN :
          LET r == wnd_proc(Head(queue), GetClientRect(client, rect_ok))
          IN  /\ GLOBAL_RUNNING' = r.running
              /\ quit_posted' = r.quit
              /\ blit' = r.blit
              /\ pc' = IF r.panicked THEN "panicked" ELSE "pump"
              /\ failure' = IF r.panicked THEN FirstFailure("dimension") ELSE failure
    /\ handled' = Head(queue)
    /\ close_seen' = (close_seen \/ Head(queue) \in ClosingKinds)
    /\ queue' = Tail(queue)
    /\ polled' = NoPoll
    /\ UNCHANGED <<overflow_checks, GLOBAL_BUFFER, heap, class_registered,
                   GLOBAL_GAMEPAD_0, mutex, presents_after_close, threadVars,
                   animVars, client, steps, frame, renderVars>>

\* Lines 345-347, no message pending but a quit posted: PeekMessageW
\* returns the thread's WM_QUIT, which belongs to no window, so
\* DispatchMessageW calls no window procedure.
PumpQuit ==
    /\ pc = "pump"
    /\ queue = <<>>
    /\ quit_posted
    /\ quit_posted' = FALSE
    /\ Quiet
    /\ UNCHANGED <<pc, overflow_checks, GLOBAL_RUNNING, GLOBAL_BUFFER, heap,
                   class_registered, queue, GLOBAL_GAMEPAD_0, mutex, presents_after_close,
                   threadVars, animVars, client, loopVars, renderVars>>

\* Line 345, nothing pending: PeekMessageW returns false and the pump ends.
PumpDone ==
    /\ pc = "pump"
    /\ queue = <<>>
    /\ ~quit_posted
    /\ pc' = "poll"
    /\ steps' = Append(steps, "pump")
    /\ Quiet
    /\ UNCHANGED <<overflow_checks, GLOBAL_RUNNING, GLOBAL_BUFFER, heap, class_registered,
                   queue, quit_posted, GLOBAL_GAMEPAD_0, mutex, presents_after_close,
                   threadVars, animVars, client, frame, close_seen, failure, renderVars>>

\* Lines 351-354: render_gradient is the statement after the poll.  The
\* variant goes from the poll straight to the present.
SkipRender == "present"

AfterPoll == "render"

\* Line 351: read_controller_state, one whole poll of the four indices.
Poll ==
    /\ pc = "poll"
    /\ \E answers \in PollAnswers :
          LET r == PollFrom(0, GLOBAL_GAMEPAD_0, mutex, FALSE, answers, overflow_checks)
          IN  /\ GLOBAL_GAMEPAD_0' = r.state
              /\ mutex' = r.mutex
              /\ polled' = <<[answers |-> answers, before |-> GLOBAL_GAMEPAD_0,
                              held_at_query |-> r.held_at_query]>>
              /\ pc' = IF r.panicked THEN "panicked" ELSE AfterPoll
              /\ failure' = IF r.panicked THEN FirstFailure("abs") ELSE failure
    /\ steps' = Append(steps, "poll")
    /\ handled' = "none"
    /\ blit' = NoBlit
    /\ UNCHANGED <<overflow_checks, GLOBAL_RUNNING, GLOBAL_BUFFER, heap, class_registered,
                   queue, quit_posted, presents_after_close, threadVars,
                   animVars, client, frame, close_seen, renderVars>>

\* Line 354: render_gradient(&*GLOBAL_BUFFER, x_anim, y_anim) fills the
\* block.  The 3686400 bytes of the program's block are followed as the
\* offsets they were computed from; SpecRender follows them byte by byte.
Render ==
    /\ pc = "render"
    /\ IF RenderPanics(GLOBAL_BUFFER[1], x_anim, y_anim, overflow_checks)
           THEN /\ pc' = "panicked"
                /\ content' = <<>>
                /\ failure' = FirstFailure("overflow")
           ELSE /\ pc' = "present"
                /\ content' = <<[x_offset |-> x_anim, y_offset |-> y_anim]>>
                /\ failure' = failure
    /\ steps' = Append(steps, "render")
    /\ Quiet
    /\ UNCHANGED <<overflow_checks, GLOBAL_RUNNING, GLOBAL_BUFFER, heap, class_registered,
                   queue, quit_posted, GLOBAL_GAMEPAD_0, mutex, presents_after_close,
                   threadVars, x_anim, y_anim, client, frame, close_seen, renderVars>>

\* Lines 355-356: the client rectangle is queried (a failure panics) and
\* the buffer presented at the size just queried.
Present ==
    /\ pc = "present"
    /\ \E rect_ok \in BOOLEAN :
          LET dimension == win32_get_window_dimension(GetClientRect(client, rect_ok))
          IN  IF dimension # <<>>
                  THEN /\ blit' = win32_display_buffer_in_window(
                                      "loop", GLOBAL_BUFFER[1],
                                      dimension[1].width, dimension[1].height)
                       /\ presents_after_close' =
                              IF GLOBAL_RUNNING THEN presents_after_close
                              ELSE IF presents_after_close < 2
                                  THEN presents_after_close + 1
                              ELSE presents_after_close
                       /\ pc' = "advance"
                       /\ failure' = failure
                  ELSE /\ blit' = NoBlit
                       /\ presents_after_close' = presents_after_close
                       /\ pc' = "panicked"
                       /\ failure' = FirstFailure("dimension")
    /\ steps' = Append(steps, "present")
    /\ handled' = "none"
    /\ polled' = NoPoll
    /\ UNCHANGED <<overflow_checks, GLOBAL_RUNNING, GLOBAL_BUFFER, heap, class_registered,
                   queue, quit_posted, GLOBAL_GAMEPAD_0, mutex, threadVars,
                   animVars, client, frame, close_seen, renderVars>>

\* Lines 359-369: x_anim += 1 and y_anim += 2, then the slot is read under
\* its lock and y_anim += 10 when its Y button is set; the guard is dropped
\* at line 369.  A build with overflow checks panics on a sum that leaves
\* the i32 range, at line 366 with the lock held; any other build wraps.
Advance ==
    /\ pc = "advance"
    /\ LockFree(mutex)
    /\ LET x1 == WrapAdd(x_anim, 1)
           y1 == WrapAdd(y_anim, 2)
           pressed == GLOBAL_GAMEPAD_0.buttons.y
           y2 == IF pressed THEN WrapAdd(y1, 10) ELSE y1
           early == overflow_checks /\ (AddOverflows(x_anim, 1) \/ AddOverflows(y_anim, 2))
           late == overflow_checks /\ pressed /\ AddOverflows(y1, 10)
       IN  IF early \/ late
               THEN /\ pc' = "panicked"
                    /\ mutex' = IF early THEN mutex ELSE "poisoned"
                    /\ failure' = FirstFailure("overflow")
                    /\ UNCHANGED <<x_anim, y_anim>>
               ELSE /\ pc' = "loop"
                    /\ mutex' = DropGuard("reader")
                    /\ x_anim' = x1
                    /\ y_anim' = y2
                    /\ failure' = failure
    /\ Quiet
    /\ UNCHANGED <<overflow_checks, GLOBAL_RUNNING, GLOBAL_BUFFER, heap, class_registered,
                   queue, quit_posted, GLOBAL_GAMEPAD_0, presents_after_close,
                   threadVars, content, client, steps, frame, close_seen, renderVars>>

\* The window system acts on the window only through its thread's message
\* pump, and the pump is the only reader of the queue, so what arrives
\* anywhere in an iteration is what arrived by the time the next pump
\* looks: arrivals are taken during the pump.
Arrivals == pc = "pump"

\* The kinds the window system queues in a run of the program: those with
\* an arm of their own that touches the state, and WM_SIZE for all the
\* others (WM_KEYDOWN and WM_LBUTTONDOWN only print, lines 179-186, and
\* leave the state as the `_` arm does).
ArrivingKinds == MsgKinds \ {"WM_KEYDOWN", "WM_LBUTTONDOWN"}

\* The window system queues a message for the window.
Enqueue ==
    /\ Arrivals
    /\ Len(queue) < MaxQueue
    /\ \E msg \in ArrivingKinds : queue' = Append(queue, msg)
    /\ Quiet
    /\ UNCHANGED <<pc, overflow_checks, GLOBAL_RUNNING, GLOBAL_BUFFER, heap,
                   class_registered, quit_posted, GLOBAL_GAMEPAD_0, mutex,
                   presents_after_close, threadVars, animVars, client, loopVars,
                   renderVars>>

\* The window is given another client rectangle (the user drags its border,
\* minimises or restores it).
WindowResize ==
    /\ Arrivals
    /\ client # <<>>
    /\ \E rect \in ClientRects \ {client[1]} : client' = <<rect>>
    /\ Quiet
    /\ UNCHANGED <<pc, overflow_checks, GLOBAL_RUNNING, GLOBAL_BUFFER, heap,
                   class_registered, queue, quit_posted, GLOBAL_GAMEPAD_0, mutex,
                   presents_after_close, threadVars, animVars, loopVars, renderVars>>

Next ==
    \/ MainInit
    \/ MainResize
    \/ MainRegister
    \/ MainCreateWindow
    \/ MainEnter
    \/ LoopCheck
    \/ PumpDispatch
    \/ PumpQuit
    \/ PumpDone
    \/ Poll
    \/ Render
    \/ Present
    \/ Advance
    \/ Enqueue
    \/ WindowResize

Spec == Init /\ [][Next]_vars

\* -------------------------------------- SpecLive: the program, scheduled

\* The steps of the loop of lines 344-370.
LoopSteps ==
    \/ LoopCheck
    \/ PumpDispatch
    \/ PumpQuit
    \/ PumpDone
    \/ Poll
    \/ Render
    \/ Present
    \/ Advance

\* main's thread is the only thread of the process and nothing suspends it
\* for good: once in the loop, whatever statement it stands at, it runs.
\* The window system (Enqueue, WindowResize) is under no such obligation.
SpecLive == Init /\ [][Next]_vars /\ WF_vars(LoopSteps)

\* ------------------------------- SpecFrames: the loop after a long run

\* The buffer and the heap as line 306 leaves them.
ResizedDefault(checks) ==
    win32_resize_dib_section(FreshHeap, DefaultBuffer, default_width, default_height,
                             checks, TRUE)

\* The offsets at the head of the loop after n iterations that all read
\* the Y button as clear are x_anim = n and y_anim = 2n.  A build without
\* overflow checks gets to n = (i32::MAX - 1) / 2 with nothing wrapped
\* yet.  A build with them gets to the n whose render still has
\* y_offset + (default_height - 1) = i32::MAX.
FrameStarts(checks) ==
    IF checks
        THEN {[x |-> (MaxI32 - (default_height - 1)) \div 2,
               y |-> MaxI32 - (default_height - 1)]}
        ELSE {[x |-> (MaxI32 - 1) \div 2, y |-> MaxI32 - 1]}

\* main at line 344 after that many iterations: the buffer as line 306
\* left it, the window open, nothing pending, and the block holding the
\* gradient of the iteration before.
FramesInit ==
    /\ pc = "loop"
    /\ overflow_checks \in BOOLEAN
    /\ GLOBAL_RUNNING = TRUE
    /\ GLOBAL_BUFFER = <<ResizedDefault(overflow_checks).buffer>>
    /\ heap = ResizedDefault(overflow_checks).heap
    /\ class_registered = TRUE
    /\ queue = <<>>
    /\ quit_posted = FALSE
    /\ GLOBAL_GAMEPAD_0 = DefaultGamepadState
    /\ mutex = "free"
    /\ handled = "none"
    /\ blit = NoBlit
    /\ polled = NoPoll
    /\ presents_after_close = 0
    /\ wpc = "idle"
    /\ controller_index = 0
    /\ gamepad = ZeroGamepad
    /\ next_field = 1
    /\ rpc = "idle"
    /\ \E start \in FrameStarts(overflow_checks) :
          /\ x_anim = start.x
          /\ y_anim = start.y
          /\ content = <<[x_offset |-> start.x - 1, y_offset |-> start.y - 2]>>
    /\ client = <<CreatedRect>>
    /\ steps = LoopOrder
    /\ frame = 0
    /\ close_seen = FALSE
    /\ failure = "none"
    /\ NoBytes

FramesNext == LoopSteps \/ Enqueue \/ WindowResize

SpecFrames == FramesInit /\ [][FramesNext]_vars

\* ------------------------------------- SpecPump: one pump of the messages

\* The sequences of at most n message kinds.
RECURSIVE Pending(_)
Pending(n) ==
    IF n = 0 THEN {<<>>}
    ELSE LET shorter == Pending(n - 1)
         IN  shorter \cup {Append(q, msg) : q \in {r \in shorter : Len(r) = n - 1},
                                            msg \in MsgKinds}

\* The pump of lines 345-348 about to start on a queue, in an iteration of
\* the loop.  wnd_proc tells a null GLOBAL_BUFFER from a set one (line
\* 188), so both are drawn, with the flag either way.
PumpInit ==
    /\ pc = "pump"
    /\ overflow_checks \in BOOLEAN
    /\ GLOBAL_RUNNING \in BOOLEAN
    /\ \E surface \in BOOLEAN :
          /\ GLOBAL_BUFFER =
                 IF surface THEN <<ResizedDefault(overflow_checks).buffer>> ELSE <<>>
          /\ heap = IF surface THEN ResizedDefault(overflow_checks).heap ELSE FreshHeap
          /\ content \in (IF surface THEN {<<>>, <<[x_offset |-> 0, y_offset |-> 0]>>}
                                     ELSE {<<>>})
    /\ class_registered = TRUE
    /\ queue \in Pending(MaxQueue)
    /\ quit_posted = FALSE
    /\ GLOBAL_GAMEPAD_0 = DefaultGamepadState
    /\ mutex = "free"
    /\ handled = "none"
    /\ blit = NoBlit
    /\ polled = NoPoll
    /\ presents_after_close = 0
    /\ wpc = "idle"
    /\ controller_index = 0
    /\ gamepad = ZeroGamepad
    /\ next_field = 1
    /\ rpc = "idle"
    /\ x_anim = 0
    /\ y_anim = 0
    /\ client \in {<<rect>> : rect \in ClientRects}
    /\ steps = <<>>
    /\ frame = 1
    /\ close_seen = FALSE
    /\ failure = "none"
    /\ NoBytes

PumpNext == PumpDispatch \/ PumpQuit \/ PumpDone

SpecPump == PumpInit /\ [][PumpNext]_vars

\* ------------------------------- SpecRender: render_gradient, byte by byte

\* `v as u8` for an i32 v: its low eight bits.
ToU8(v) == v % 256

\* size_of::<u32>(): what pixel_ptr.add(1) advances by.
u32_bytes == 4

\* Lines 219-223: the pixel of column x and row y as the two halves of its
\* u32 (a << 24 | r << 16 | g << 8 | b does not fit the integers here),
\* the sums wrapped as a build without overflow checks computes them.
Pixel(x, y, x_offset, y_offset) ==
    LET b == ToU8(WrapAdd(x, x_offset))
        g == ToU8(WrapAdd(y, y_offset))
        r == 0
        a == 255
    IN  [high |-> a * 256 + r, low |-> g * 256 + b]

\* The four bytes a store of that u32 leaves, lowest address first
\* (x86-64 and AArch64 Windows are little-endian).
StoredBytes(pixel) ==
    <<pixel.low % 256, pixel.low \div 256, pixel.high % 256, pixel.high \div 256>>

\* render_gradient(buffer, x_offset, y_offset) on a block holding `bytes`:
\* the rows and columns are visited in the order of lines 215-216; pixel
\* number k (from 0) is that of row k / width and column k % width, stored
\* at pixel_ptr.add(y * width + x).  In a build with overflow checks the
\* first pixel whose sum leaves the i32 range panics, after the stores of
\* the pixels before it.  The result is the bytes of the block, the byte
\* offset of every store in order, and whether the call panicked.
render_gradient(buffer, x_offset, y_offset, checks, bytes) ==
    LET count == buffer.width * buffer.height
        Row(k) == k \div buffer.width
        Column(k) == k % buffer.width
        Overflows(k) ==
            checks /\ (AddOverflows(x_offset, Column(k)) \/ AddOverflows(y_offset, Row(k)))
        done ==
            IF \E k \in 0..(count - 1) : Overflows(k)
                THEN CHOOSE k \in 0..(count - 1) :
                         Overflows(k) /\ \A j \in 0..(k - 1) : ~Overflows(j)
                ELSE count
        StoreAt(k) == u32_bytes * (Row(k) * buffer.width + Column(k))
        Covers(k, i) == k < done /\ StoreAt(k) <= i /\ i < StoreAt(k) + u32_bytes
        LastStore(i) ==
            CHOOSE k \in 0..(count - 1) :
                Covers(k, i) /\ \A j \in 0..(count - 1) : Covers(j, i) => j <= k
    IN  [bytes |->
             [i \in DOMAIN bytes |->
                 IF \E k \in 0..(count - 1) : Covers(k, i)
                     THEN StoredBytes(Pixel(Column(LastStore(i)), Row(LastStore(i)),
                                            x_offset, y_offset))[i - StoreAt(LastStore(i)) + 1]
                     ELSE bytes[i]],
         stores |-> [k \in 1..done |-> StoreAt(k - 1)],
         panicked |-> done < count]

\* The offsets render_gradient is called with: small ones, ones around a
\* multiple of 256, negative ones, and the ends of the i32 range.
RenderOffsets == {0, 250, 255, -1, MaxI32 - 1, MaxI32, MinI32}

\* A buffer just resized to a small width and height, its block as
\* VirtualAlloc commits it (zeroed), and a call of render_gradient about to
\* be made with the offsets x_anim and y_anim.
RenderInit ==
    /\ pc = "render_call"
    /\ overflow_checks \in BOOLEAN
    /\ GLOBAL_RUNNING = FALSE
    /\ \E width \in 1..MaxWidth, height \in 1..MaxHeight :
          LET r == win32_resize_dib_section(FreshHeap, DefaultBuffer, width, height,
                                            overflow_checks, TRUE)
          IN  /\ GLOBAL_BUFFER = <<r.buffer>>
              /\ heap = r.heap
              /\ block_bytes = [i \in 0..(r.heap.size[r.buffer.memory] - 1) |-> 0]
    /\ class_registered = FALSE
    /\ queue = <<>>
    /\ quit_posted = FALSE
    /\ GLOBAL_GAMEPAD_0 = DefaultGamepadState
    /\ mutex = "free"
    /\ handled = "none"
    /\ blit = NoBlit
    /\ polled = NoPoll
    /\ presents_after_close = 0
    /\ wpc = "idle"
    /\ controller_index = 0
    /\ gamepad = ZeroGamepad
    /\ next_field = 1
    /\ rpc = "idle"
    /\ x_anim \in RenderOffsets
    /\ y_anim \in RenderOffsets
    /\ content = <<>>
    /\ client = <<>>
    /\ steps = <<>>
    /\ frame = 0
    /\ close_seen = FALSE
    /\ failure = "none"
    /\ stores = <<>>

\* One call render_gradient(&*GLOBAL_BUFFER, x_anim, y_anim).
RenderCall ==
    /\ pc = "render_call"
    /\ LET r == render_gradient(GLOBAL_BUFFER[1], x_anim, y_anim, overflow_checks,
                                block_bytes)
       IN  /\ block_bytes' = r.bytes
           /\ stores' = r.stores
           /\ pc' = IF r.panicked THEN "panicked" ELSE "rendered"
           /\ failure' = IF r.panicked THEN FirstFailure("overflow") ELSE failure
           /\ content' = IF r.panicked THEN <<>>
                         ELSE <<[x_offset |-> x_anim, y_offset |-> y_anim]>>
    /\ UNCHANGED <<overflow_checks, GLOBAL_RUNNING, GLOBAL_BUFFER, heap, GLOBAL_GAMEPAD_0,
                   mutex, polled, windowVars, threadVars, x_anim, y_anim, client, steps,
                   frame, close_seen>>

RenderNext == RenderCall

SpecRender == RenderInit /\ [][RenderNext]_vars

\* ------------------------------------------- SpecSurface: resize, repeated

\* A boxed default buffer, as main builds it at lines 304-305, in either
\* build profile.
SurfaceInit ==
    /\ pc = "surface"
    /\ overflow_checks \in BOOLEAN
    /\ GLOBAL_RUNNING = FALSE
    /\ GLOBAL_BUFFER = <<DefaultBuffer>>
    /\ heap = FreshHeap
    /\ class_registered = FALSE
    /\ queue = <<>>
    /\ quit_posted = FALSE
    /\ GLOBAL_GAMEPAD_0 = DefaultGamepadState
    /\ mutex = "free"
    /\ handled = "none"
    /\ blit = NoBlit
    /\ polled = NoPoll
    /\ presents_after_close = 0
    /\ wpc = "idle"
    /\ controller_index = 0
    /\ gamepad = ZeroGamepad
    /\ next_field = 1
    /\ rpc = "idle"
    /\ NoFrames
    /\ NoBytes

\* One call of win32_resize_dib_section(&mut *GLOBAL_BUFFER, width, height).
SurfaceResize ==
    /\ pc = "surface"
    /\ NextBlock(heap) # NULL
    /\ \E width \in Widths, height \in Heights, granted \in BOOLEAN :
          LET r == win32_resize_dib_section(heap, GLOBAL_BUFFER[1], width, height,
                                            overflow_checks, granted)
          IN  /\ GLOBAL_BUFFER' = <<r.buffer>>
              /\ heap' = r.heap
              /\ pc' = IF r.panicked THEN "panicked" ELSE "surface"
    /\ UNCHANGED <<overflow_checks, GLOBAL_RUNNING, GLOBAL_GAMEPAD_0, mutex, polled,
                   windowVars, threadVars, animVars, client, loopVars, renderVars>>

SurfaceNext == SurfaceResize

SpecSurface == SurfaceInit /\ [][SurfaceNext]_vars

\* ------------------------------- SpecConc: the poll and a reader, threaded

\* The slot initialised (line 298), the poll about to query index 0 on one
\* thread and the reader of lines 363-369 idle on another.
ConcInit ==
    /\ pc = "conc"
    /\ overflow_checks \in BOOLEAN
    /\ GLOBAL_RUNNING = FALSE
    /\ GLOBAL_BUFFER = <<>>
    /\ heap = FreshHeap
    /\ class_registered = FALSE
    /\ queue = <<>>
    /\ quit_posted = FALSE
    /\ GLOBAL_GAMEPAD_0 = DefaultGamepadState
    /\ mutex = "free"
    /\ handled = "none"
    /\ blit = NoBlit
    /\ polled = NoPoll
    /\ presents_after_close = 0
    /\ wpc = "query"
    /\ controller_index = 0
    /\ gamepad = ZeroGamepad
    /\ next_field = 1
    /\ rpc = "idle"
    /\ NoFrames
    /\ NoBytes

concFrame ==
    <<pc, overflow_checks, GLOBAL_RUNNING, GLOBAL_BUFFER, heap, polled, windowVars,
      animVars, client, loopVars, renderVars>>

\* The poll's next controller index; past the last, read_controller_state
\* returns and the next call starts again at 0.
NextIndex(i) == (i + 1) % XUSER_MAX_COUNT

\* Lines 244-250: XInputGetState for the current index.
WQuery ==
    /\ wpc = "query"
    /\ \E answer \in {NotConnected} \cup {Connected(g) : g \in Reports} :
          IF answer.status = "ERROR_SUCCESS"
              THEN /\ gamepad' = answer.Gamepad
                   /\ wpc' = "lock"
                   /\ controller_index' = controller_index
              ELSE /\ gamepad' = ZeroGamepad
                   /\ wpc' = "query"
                   /\ controller_index' = NextIndex(controller_index)
    /\ UNCHANGED <<GLOBAL_GAMEPAD_0, mutex, next_field, rpc, concFrame>>

\* Lines 251-252: the poll takes the lock; a poisoned one panics it.
WLock ==
    /\ wpc = "lock"
    /\ \/ /\ LockFree(mutex)
          /\ mutex' = "writer"
          /\ wpc' = "write"
          /\ next_field' = 1
       \/ /\ mutex = "poisoned"
          /\ wpc' = "panicked"
          /\ UNCHANGED <<mutex, next_field>>
    /\ UNCHANGED <<GLOBAL_GAMEPAD_0, controller_index, gamepad, rpc, concFrame>>

\* Lines 254-276: the next of the twenty assignments.
WWrite ==
    /\ wpc = "write"
    /\ GLOBAL_GAMEPAD_0' = WriteField(GLOBAL_GAMEPAD_0, gamepad, next_field)
    /\ next_field' = next_field + 1
    /\ wpc' = IF next_field = Len(Fields) THEN "debug" ELSE "write"
    /\ UNCHANGED <<mutex, controller_index, gamepad, rpc, concFrame>>

\* Lines 279-291: the debug prints, then the guard is dropped; the abs()
\* of line 288 may panic first, which poisons the lock.
WDebug ==
    /\ wpc = "debug"
    /\ IF AbsPanics(GLOBAL_GAMEPAD_0, overflow_checks)
           THEN /\ mutex' = "poisoned"
                /\ wpc' = "panicked"
                /\ controller_index' = controller_index
           ELSE /\ mutex' = DropGuard(mutex)
                /\ wpc' = "query"
                /\ controller_index' = NextIndex(controller_index)
    /\ UNCHANGED <<GLOBAL_GAMEPAD_0, gamepad, next_field, rpc, concFrame>>

\* Line 364: the reader takes the lock; a poisoned one panics it.
RLock ==
    /\ rpc = "idle"
    /\ \/ /\ LockFree(mutex)
          /\ mutex' = "reader"
          /\ rpc' = "locked"
       \/ /\ mutex = "poisoned"
          /\ rpc' = "panicked"
          /\ UNCHANGED mutex
    /\ UNCHANGED <<GLOBAL_GAMEPAD_0, wpc, controller_index, gamepad, next_field, concFrame>>

\* Lines 365-369: buttons.y is read and the guard dropped.
RUnlock ==
    /\ rpc = "locked"
    /\ mutex' = DropGuard(mutex)
    /\ rpc' = "idle"
    /\ UNCHANGED <<GLOBAL_GAMEPAD_0, wpc, controller_index, gamepad, next_field, concFrame>>

ConcNext == WQuery \/ WLock \/ WWrite \/ WDebug \/ RLock \/ RUnlock

SpecConc == ConcInit /\ [][ConcNext]_vars

\* ---------------------------------------------------------------- claims

\* The buffer GLOBAL_BUFFER points at, once it points at one.
Surface == GLOBAL_BUFFER[1]

\* C1: after win32_resize_dib_section(buffer, width, height) returns, for
\* positive width and height, the pitch is width*4 and the block the buffer
\* holds is width*height*4 bytes long.  The products are compared by
\* division, so that none is formed outside the i32 range.
C1_PitchAndLength ==
    (pc = "surface" /\ Surface.memory # NULL) =>
        /\ Surface.pitch % bytes_per_pixel = 0
        /\ Surface.pitch \div bytes_per_pixel = Surface.width
        /\ heap.size[Surface.memory] % bytes_per_pixel = 0
        /\ (heap.size[Surface.memory] \div bytes_per_pixel) % Surface.width = 0
        /\ (heap.size[Surface.memory] \div bytes_per_pixel) \div Surface.width = Surface.height

\* C1, where it goes wrong: a resize has returned with a 4-byte block for a
\* buffer 1073741825 pixels wide.
C1_Witness ==
    /\ pc = "surface"
    /\ Surface.width = 1073741825
    /\ Surface.memory # NULL
    /\ heap.size[Surface.memory] = 4

\* C2: every present, from the loop or from the WM_PAINT handler, is handed
\* the buffer as it is now, whose memory is a block that is committed, never
\* freed, and width*height*4 bytes long.
C2_PresentSeesLiveMemory ==
    blit.from # "none" =>
        /\ blit.buffer = Surface
        /\ blit.buffer.memory # NULL
        /\ heap.live[blit.buffer.memory]
        /\ heap.frees[blit.buffer.memory] = 0
        /\ heap.size[blit.buffer.memory]
               = blit.buffer.width * blit.buffer.height * bytes_per_pixel

\* C2: a present made by the WM_PAINT handler during the pump.
C2_Witness ==
    /\ blit.from = "paint"
    /\ pc = "pump"
    /\ blit.buffer.width = default_width
    /\ blit.buffer.height = default_height

\* C3 as stated: the loop body makes no present once a close has been
\* dispatched, that is, with GLOBAL_RUNNING already false.
C3_NoLoopPresentAfterClose == blit.from = "loop" => GLOBAL_RUNNING

\* C3 amended: after a close is dispatched the loop body makes at most one
\* more present, that of the iteration whose pump dispatched the close, and
\* after it only reaches the head of the loop and stops.
C3_OnlyTheIterationInFlight ==
    /\ presents_after_close <= 1
    /\ presents_after_close = 1 => pc \in {"advance", "loop", "stopped"}
    /\ pc = "stopped" => ~GLOBAL_RUNNING

\* C3: the loop has stopped after presenting once more.
C3_Witness == pc = "stopped" /\ presents_after_close = 1

\* C4: when wnd_proc returns from a WM_CLOSE or a WM_DESTROY,
\* GLOBAL_RUNNING is false.
C4_CloseAndDestroyStop ==
    handled \in {"WM_CLOSE", "WM_DESTROY"} => ~GLOBAL_RUNNING

\* C5: after one poll, the slot of every controller index that answered not
\* connected holds what it held before the poll.
C5_DisconnectedSlotKept ==
    polled # NoPoll =>
        \A i \in 0..(XUSER_MAX_COUNT - 1) :
            (polled[1].answers[i].status # "ERROR_SUCCESS" /\ SlotOf(i) = "GLOBAL_GAMEPAD_0")
                => GLOBAL_GAMEPAD_0 = polled[1].before

\* A bit of the button mask, by division.
Bit(w, k) == (w \div (2 ^ k)) % 2 = 1

\* The snapshot a report stands for: each flag its own bit of the mask, in
\* XInput's layout, and the triggers and axes as they are.
Snapshot(g) ==
    [buttons  |-> [up |-> Bit(g.wButtons, 0), down |-> Bit(g.wButtons, 1),
                   left |-> Bit(g.wButtons, 2), right |-> Bit(g.wButtons, 3),
                   start |-> Bit(g.wButtons, 4), back |-> Bit(g.wButtons, 5),
                   l_thumb |-> Bit(g.wButtons, 6), r_thumb |-> Bit(g.wButtons, 7),
                   l_shoulder |-> Bit(g.wButtons, 8), r_shoulder |-> Bit(g.wButtons, 9),
                   a |-> Bit(g.wButtons, 12), b |-> Bit(g.wButtons, 13),
                   x |-> Bit(g.wButtons, 14), y |-> Bit(g.wButtons, 15)],
     triggers |-> [l_trigger |-> g.bLeftTrigger, r_trigger |-> g.bRightTrigger],
     sticks   |-> [l_stick_x |-> g.sThumbLX, l_stick_y |-> g.sThumbLY,
                   r_stick_x |-> g.sThumbRX, r_stick_y |-> g.sThumbRY]]

\* C6: after a poll that did not panic and in which two different
\* controller indices were connected, the slot of each holds the snapshot
\* of its own report.
C6_OwnSlotPerIndex ==
    (polled # NoPoll /\ pc = "render") =>
        \A i, j \in 0..(XUSER_MAX_COUNT - 1) :
            (/\ i # j
             /\ polled[1].answers[i].status = "ERROR_SUCCESS"
             /\ polled[1].answers[j].status = "ERROR_SUCCESS"
             /\ SlotOf(i) = "GLOBAL_GAMEPAD_0")
                => GLOBAL_GAMEPAD_0 = Snapshot(polled[1].answers[i].Gamepad)

\* C7: whenever the reader holds the lock, the slot holds the default
\* snapshot or the whole snapshot of one report.
C7_ReaderSeesWholeSnapshot ==
    rpc = "locked" =>
        \/ GLOBAL_GAMEPAD_0 = DefaultGamepadState
        \/ \E g \in Reports : GLOBAL_GAMEPAD_0 = Snapshot(g)

\* C7: the reader holds the lock on a written slot while the poll, with its
\* next report in hand, waits for it.
C7_Witness ==
    /\ rpc = "locked"
    /\ wpc = "lock"
    /\ GLOBAL_GAMEPAD_0 = Snapshot(ReportAll)
    /\ gamepad = ReportUp

\* C8: once the poll has run the twenty assignments for a report, the slot
\* holds exactly the snapshot of that report, whatever it held before.
C8_SnapshotOfReportAlone ==
    wpc = "debug" => GLOBAL_GAMEPAD_0 = Snapshot(gamepad)

\* C8: the report with the up bit and the left trigger at 200 has been
\* written: up and l_trigger = 200, every other field false or 0.
C8_Witness ==
    /\ wpc = "debug"
    /\ gamepad = ReportUp
    /\ GLOBAL_GAMEPAD_0 =
          [DefaultGamepadState EXCEPT !.buttons.up = TRUE, !.triggers.l_trigger = 200]

C10_ReleasedWhenStopped ==
    pc = "stopped" =>
        \A b \in Blocks : heap.size[b] > 0 => (~heap.live[b] /\ heap.frees[b] = 1)

\* How many of them are done when main stands at a place of the loop body.
StepsDoneAt ==
    [p \in {"pump", "poll", "render", "present", "advance"} |->
        CASE p = "pump" -> 0 [] p = "poll" -> 1 [] p = "render" -> 2
          [] p = "present" -> 3 [] p = "advance" -> 4]

\* C11: in every iteration of the loop the steps pump, poll, render and
\* present are taken in this order, each once, and what the loop's present
\* shows is what the render of the same iteration wrote, that is, the
\* gradient of this iteration's offsets.
C11_FixedOrderAndFreshContent ==
    /\ \E k \in 0..Len(LoopOrder) : steps = SubSeq(LoopOrder, 1, k)
    /\ pc \in DOMAIN StepsDoneAt => steps = SubSeq(LoopOrder, 1, StepsDoneAt[pc])
    /\ blit.from = "loop" =>
          /\ steps = LoopOrder
          /\ blit.shown = <<[x_offset |-> x_anim, y_offset |-> y_anim]>>

\* C11: the second iteration has presented the gradient of its own offsets,
\* 1 and 12 (the first iteration read the Y button as set).
C11_Witness ==
    /\ pc = "advance"
    /\ frame = 2
    /\ steps = LoopOrder
    /\ blit.from = "loop"
    /\ blit.shown = <<[x_offset |-> 1, y_offset |-> 12]>>

\* A step of the pump retrieves a message: the oldest of the window's
\* queue, or the WM_QUIT that PostQuitMessage left for the thread.
RetrievesQueued == queue # <<>> /\ queue' = Tail(queue)

RetrievesQuit == quit_posted /\ ~quit_posted'

\* C12: the pump retrieves the pending messages one at a time, oldest
\* first; every message it retrieves is handled by one branch of wnd_proc,
\* the branch of its kind, before the next is retrieved; the pump ends only
\* with nothing pending; and a step of the pump that retrieves nothing
\* (a pump that finds the queue empty among them) leaves GLOBAL_RUNNING, the
\* surface and the input snapshot as they were.
C12_PumpDrainsInOrder ==
    [][pc = "pump" =>
          /\ RetrievesQueued => handled' = Head(queue)
          /\ RetrievesQuit => handled' = "WM_QUIT"
          /\ handled' # "none" => (RetrievesQueued \/ RetrievesQuit)
          /\ pc' = "poll" => (queue = <<>> /\ ~quit_posted)
          /\ ~(RetrievesQueued \/ RetrievesQuit) =>
                UNCHANGED <<GLOBAL_RUNNING, GLOBAL_BUFFER, heap, GLOBAL_GAMEPAD_0>>]_vars

\* C12: the pump has dispatched a WM_DESTROY, so the WM_QUIT it posted is
\* the message the pump retrieves next.
C12_Witness ==
    /\ pc = "pump"
    /\ handled = "WM_DESTROY"
    /\ queue = <<>>
    /\ quit_posted

\* C13: when wnd_proc returns from a WM_PAINT with GLOBAL_BUFFER set, it
\* has made one present, of the buffer and of what its block holds now, at
\* the window's size, in the step that dispatched the message and so before
\* the pump retrieves the next, and with the loop's own present of the
\* iteration still to come; with GLOBAL_BUFFER null it has made none.  No
\* other message makes the handler present.
C13_PaintPresentsOnce ==
    /\ (handled = "WM_PAINT" /\ pc = "pump") =>
          IF GLOBAL_BUFFER # <<>>
              THEN /\ blit.from = "paint"
                   /\ blit.buffer = Surface
                   /\ blit.shown = content
                   /\ "present" \notin {steps[k] : k \in DOMAIN steps}
              ELSE blit = NoBlit
    /\ blit.from = "paint" => (handled = "WM_PAINT" /\ GLOBAL_BUFFER # <<>>)
    /\ handled # "none" => blit.from # "loop"

\* C13: the pump has dispatched a WM_PAINT with the surface set, another
\* message is still pending, and the handler has presented the rendered
\* block at the window's 800 by 600.
C13_Witness ==
    /\ pc = "pump"
    /\ handled = "WM_PAINT"
    /\ queue # <<>>
    /\ blit.from = "paint"
    /\ blit.shown = <<[x_offset |-> 0, y_offset |-> 0]>>
    /\ blit.window_width = 800
    /\ blit.window_height = 600

\* C14: every present, the loop's or the WM_PAINT handler's, is given as
\* its target width and height those of the client rectangle the window has
\* when the present is made, however the window was resized before: never
\* a size the window had before its latest resize.
C14_PresentAtCurrentSize ==
    blit.from # "none" =>
        /\ client # <<>>
        /\ blit.window_width = client[1].right - client[1].left
        /\ blit.window_height = client[1].bottom - client[1].top

\* C14: the window was created 800 by 600 and minimised before the first
\* present of the loop, which is made at 0 by 0.
C14_Witness ==
    /\ blit.from = "loop"
    /\ frame = 1
    /\ client = <<Rect(0, 0)>>
    /\ blit.window_width = 0
    /\ blit.window_height = 0

\* The failures C15 names, and the places of main inside the loop.
FatalFailures == {"allocation", "dimension", "registration", "creation"}

LoopPlaces == {"loop", "pump", "poll", "render", "present", "advance"}

\* C15: once the allocation, the dimension query, the registration of the
\* class or the creation of the window has failed, main is never again at
\* a place of the loop, so that no iteration, render or present follows:
\* it has panicked or returned, or (after a failed registration) stands at
\* the CreateWindowExW that fails for want of the class.  And main is in
\* the loop, or has GLOBAL_RUNNING true, only with the block allocated, the
\* class registered and the window created.
C15_FailuresEndTheRun ==
    /\ failure \in FatalFailures =>
          /\ pc \in {"panicked", "returned", "create"}
          /\ pc = "create" => (failure = "registration" /\ ~class_registered)
          /\ ~GLOBAL_RUNNING \/ pc = "panicked"
    /\ (pc \in LoopPlaces \cup {"enter"} \/ (GLOBAL_RUNNING /\ pc # "panicked")) =>
          /\ failure = "none"
          /\ Surface.memory # NULL
          /\ heap.live[Surface.memory]
          /\ class_registered
          /\ client # <<>>

\* C15: the class was registered but CreateWindowExW failed, and main has
\* returned without entering the loop.
C15_Witness ==
    /\ pc = "returned"
    /\ failure = "creation"
    /\ class_registered
    /\ ~GLOBAL_RUNNING
    /\ steps = <<>>

\* A WM_CLOSE is pending for the window while the loop is running.
CloseQueuedWhileRunning ==
    /\ pc = "pump"
    /\ GLOBAL_RUNNING
    /\ \E k \in DOMAIN queue : queue[k] = "WM_CLOSE"

\* Every pump ends: main is outside the pump again and again.
EveryPumpDrains == []<>(pc # "pump")

\* C16 as stated: if every pump ends, then whenever a WM_CLOSE is pending
\* while the loop runs, the loop eventually stops.
C16_CloseLeadsToStopped ==
    EveryPumpDrains => (CloseQueuedWhileRunning ~> (pc = "stopped"))

\* C16 amended: if every pump ends, then whenever a WM_CLOSE is pending
\* while the loop runs, eventually the loop has stopped or the process has
\* panicked.
C16_CloseLeadsToStoppedOrPanic ==
    EveryPumpDrains => (CloseQueuedWhileRunning ~> (pc \in {"stopped", "panicked"}))

\* C16: the loop has stopped after the pump of its second iteration
\* dispatched a WM_CLOSE.
C16_Witness ==
    /\ pc = "stopped"
    /\ frame = 2
    /\ close_seen
    /\ ~GLOBAL_RUNNING
    /\ failure = "none"

\* C17: once wnd_proc has run its WM_CLOSE (or WM_QUIT) arm for the
\* window, during CreateWindowExW included, GLOBAL_RUNNING stays false:
\* nothing sets it back to true.
C17_CloseNeverLost == close_seen => ~GLOBAL_RUNNING

\* C17, where it goes wrong: the window procedure ran its WM_CLOSE arm
\* during CreateWindowExW, line 337 then set the flag, and the loop is in
\* the pump of its first iteration with nothing pending.
C17_Witness ==
    /\ close_seen
    /\ GLOBAL_RUNNING
    /\ pc = "pump"
    /\ frame = 1
    /\ queue = <<>>

\* (x + offset) mod 256 as the integers have it, formed from the
\* remainders so that no sum leaves the 32-bit range.
SumMod256(x, offset) == ((x % 256) + (offset % 256)) % 256

\* C18: after render_gradient(buffer, x_offset, y_offset), every pixel
\* (x, y) of the buffer was stored exactly once, at byte offset
\* y * pitch + x * 4, and the four bytes there read, from the lowest
\* address up, (x + x_offset) mod 256, (y + y_offset) mod 256, 0 and 255;
\* there were no other stores, and none outside the block's
\* width * height * 4 bytes.
C18_GradientLayout ==
    pc \in {"rendered", "panicked"} =>
        /\ \A x \in 0..(Surface.width - 1), y \in 0..(Surface.height - 1) :
              LET at == y * Surface.pitch + x * bytes_per_pixel
              IN  /\ Cardinality({k \in DOMAIN stores : stores[k] = at}) = 1
                  /\ block_bytes[at] = SumMod256(x, x_anim)
                  /\ block_bytes[at + 1] = SumMod256(y, y_anim)
                  /\ block_bytes[at + 2] = 0
                  /\ block_bytes[at + 3] = 255
        /\ Len(stores) = Surface.width * Surface.height
        /\ \A k \in DOMAIN stores :
              /\ stores[k] >= 0
              /\ stores[k] + u32_bytes <= Surface.width * Surface.height * bytes_per_pixel

\* C18, where it goes wrong: a build with overflow checks was asked for a
\* 2 by 1 gradient at x_offset = i32::MAX and panicked after the first
\* pixel, leaving the second as it was.
C18_Witness ==
    /\ pc = "panicked"
    /\ overflow_checks
    /\ Surface.width = 2
    /\ Surface.height = 1
    /\ x_anim = MaxI32
    /\ y_anim = 0
    /\ stores = <<0>>
    /\ block_bytes = [i \in 0..7 |-> IF i = 0 \/ i = 3 THEN 255 ELSE 0]

\* C19: the lock of the snapshot is held only inside one write of the poll
\* or one read of main: it is free whenever a present is made, no
\* controller index is queried with it held, and it is free at the head of
\* every iteration (and anywhere else between the steps of a run that has
\* not panicked).
C19_LockHeldOnlyInside ==
    /\ blit.from # "none" => mutex = "free"
    /\ polled # NoPoll => ~polled[1].held_at_query
    /\ pc = "loop" => mutex = "free"
    /\ pc # "panicked" => mutex = "free"

\* C19: the second iteration presents after its poll wrote the report of
\* a controller under the lock, the first iteration having read the
\* snapshot under it.
C19_Witness ==
    /\ blit.from = "loop"
    /\ frame = 2
    /\ GLOBAL_GAMEPAD_0 = Snapshot(ReportUp)
    /\ mutex = "free"

\* What one iteration adds to y_anim: 2, and 10 more when the snapshot
\* has the Y button set.
YStep == IF GLOBAL_GAMEPAD_0.buttons.y THEN 12 ELSE 2

\* C20: every iteration of the loop leaves x_anim exactly 1 greater and
\* y_anim exactly 2 greater (12 with the snapshot's Y button set), as
\* integers, and no step ever makes either offset smaller: neither wraps.
C20_OffsetsAdvance ==
    [][/\ (pc = "advance" /\ pc' = "loop") =>
             /\ x_anim <= MaxI32 - 1
             /\ x_anim' = x_anim + 1
             /\ y_anim <= MaxI32 - YStep
             /\ y_anim' = y_anim + YStep
       /\ x_anim' >= x_anim
       /\ y_anim' >= y_anim]_vars

\* C20, where it goes wrong: in a build without overflow checks y_anim
\* has wrapped from i32::MAX - 1 to i32::MIN.
C20_Witness ==
    /\ pc = "loop"
    /\ ~overflow_checks
    /\ frame = 1
    /\ x_anim = (MaxI32 - 1) \div 2 + 1
    /\ y_anim = MinI32

=============================================================================
